---- MODULE Spec2Model ----
(***************************************************************************)
(* Model of the Directus hook extension "version control changelog":       *)
(* BitbucketVersionControl (applyConfig, addToChangelogFile), the          *)
(* ChangelogFormatter and the ChangelogWriter.triggerProcessor that drives *)
(* them, together with the Bitbucket Server repository they talk to.       *)
(*                                                                         *)
(* Text is modelled character by character: a string is a sequence of      *)
(* one-character strings, a document is a sequence of such lines.          *)
(*                                                                         *)
(* Five specifications share the state: Spec, the classes used directly;   *)
(* HookSpec, the extension set up and driven by its host (index.ts);       *)
(* FormatterSpec, the two functions of ChangelogFormatter on their own;    *)
(* ProviderSpec, the singleton ExceptionProvider on its own; UserSpec,     *)
(* ChangelogWriter.extractUserId on its own.                               *)
(***************************************************************************)
EXTENDS Integers, Sequences, FiniteSets, TLC

(* ------------------------------ bounds -------------------------------- *)

\* number of update triggers / addToChangelogFile calls of one run
MaxPublishes == 2
Publishes == 1..MaxPublishes

\* number of update events the host delivers to the registered handler
MaxHookTriggers == 1
HookTriggers == 1..MaxHookTriggers

\* length of the text given to formatLatestChanges, in characters
MaxRawLen == 4

\* length of the log and of the new entry given to insertNewEntryIntoLog,
\* in lines
MaxOldLen == 3
MaxNewLen == 2

\* calls of ExceptionProvider in a run
MaxProviderCalls == 4

(* --------------------------- text helpers ----------------------------- *)

NL == "\n"

\* the characters String.prototype.trim() removes (those the inputs use)
IsWhitespace(c) == c \in {" ", "\n", "\r", "\t"}

RECURSIVE TrimStart(_)
TrimStart(s) ==
    IF s = <<>> THEN <<>>
    ELSE IF IsWhitespace(Head(s)) THEN TrimStart(Tail(s)) ELSE s

RECURSIVE TrimEnd(_)
TrimEnd(s) ==
    IF s = <<>> THEN <<>>
    ELSE IF IsWhitespace(s[Len(s)]) THEN TrimEnd(SubSeq(s, 1, Len(s) - 1)) ELSE s

\* String.prototype.trim
Trim(s) == TrimEnd(TrimStart(s))

\* String.prototype.startsWith
StartsWith(s, prefix) ==
    /\ Len(s) >= Len(prefix)
    /\ SubSeq(s, 1, Len(prefix)) = prefix

\* String.prototype.split(sep) for a one-character separator: always at
\* least one piece, a trailing separator yields a trailing empty piece
RECURSIVE SplitFrom(_, _, _)
SplitFrom(s, sep, cur) ==
    IF s = <<>> THEN <<cur>>
    ELSE IF Head(s) = sep THEN <<cur>> \o SplitFrom(Tail(s), sep, <<>>)
    ELSE SplitFrom(Tail(s), sep, Append(cur, Head(s)))

Split(s, sep) == SplitFrom(s, sep, <<>>)

\* Array.prototype.join(sep) for a one-character separator
RECURSIVE Join(_, _)
Join(lines, sep) ==
    IF lines = <<>> THEN <<>>
    ELSE IF Len(lines) = 1 THEN lines[1]
    ELSE lines[1] \o <<sep>> \o Join(Tail(lines), sep)

(* ------------------------- ChangelogFormatter ------------------------- *)

\* '# Directus Changelog'
fileHeadline ==
    <<"#", " ", "D", "i", "r", "e", "c", "t", "u", "s", " ",
      "C", "h", "a", "n", "g", "e", "l", "o", "g">>

\* (variant: a blank line is not dropped but made an item of its own)
FormatLineKeepBlank(line) ==
    IF ~StartsWith(Trim(line), <<"-">>) THEN <<(<<"-", " ">> \o line)>>
    ELSE IF StartsWith(Trim(line), <<"-", " ">>) THEN <<line>>
    ELSE <<(<<"-", " ">> \o SubSeq(line, 2, Len(line)))>>

\* the list item formatLatestChanges pushes for one line of the user input
\* (the empty sequence when the line is blank and nothing is pushed)
FormatLine(line) ==
    IF Trim(line) = <<>> THEN <<>>
    ELSE IF ~StartsWith(Trim(line), <<"-">>) THEN <<(<<"-", " ">> \o line)>>
    ELSE IF StartsWith(Trim(line), <<"-", " ">>) THEN <<line>>
    ELSE <<(<<"-", " ">> \o SubSeq(line, 2, Len(line)))>>

RECURSIVE FormatLines(_)
FormatLines(lines) ==
    IF lines = <<>> THEN <<>>
    ELSE FormatLine(Head(lines)) \o FormatLines(Tail(lines))

formatLatestChanges(userChangelog, entryHeadline) ==
    <<entryHeadline, <<>>>> \o FormatLines(Split(userChangelog, NL))

\* the lines of oldLog from index i on that insertNewEntryIntoLog copies,
\* newLog being the log built before the old lines are appended (so that
\* newLog[index] of the source is newLog[i] here, i counting from 1)
RECURSIVE CopyOldLog(_, _, _)
CopyOldLog(oldLog, newLog, i) ==
    IF i > Len(oldLog) THEN <<>>
    ELSE LET line == oldLog[i]
             keep == IF i = 1 \/ i = 2
                     THEN \/ i > Len(newLog)
                          \/ Trim(newLog[i]) # Trim(line)
                     ELSE TRUE
         IN  (IF keep THEN <<line>> ELSE <<>>) \o CopyOldLog(oldLog, newLog, i + 1)

\* (variant: the old log is not appended)
insertNewEntryIntoLogDropOld(oldLog, newLines) ==
    <<fileHeadline, <<>>>> \o newLines

\* (variant: an empty line is pushed after the lines of the entry)
insertNewEntryIntoLogBlankLast(oldLog, newLines) ==
    LET newLog == <<fileHeadline, <<>>>> \o newLines
    IN  newLog \o << <<>> >> \o CopyOldLog(oldLog, newLog, 1)

\* (variant: every line of the old log is copied, its headline too)
insertNewEntryIntoLogKeepAll(oldLog, newLines) ==
    <<fileHeadline, <<>>>> \o newLines \o oldLog

\* (variant: the headline is searched for in the whole old log and dropped
\* wherever it is found)
insertNewEntryIntoLogDropTitles(oldLog, newLines) ==
    LET newLog == <<fileHeadline, <<>>>> \o newLines
        NotTitle(line) == Trim(line) # Trim(fileHeadline)
    IN  newLog \o SelectSeq(CopyOldLog(oldLog, newLog, 1), NotTitle)

\* (variant: the entry is put below the old log, not above it)
insertNewEntryIntoLogAppend(oldLog, newLines) ==
    LET newLog == <<fileHeadline, <<>>>>
    IN  newLog \o CopyOldLog(oldLog, newLog, 1) \o newLines

\* (variant: the first two lines of the old log are never copied)
insertNewEntryIntoLogSkipTwo(oldLog, newLines) ==
    <<fileHeadline, <<>>>> \o newLines \o SubSeq(oldLog, 3, Len(oldLog))

insertNewEntryIntoLog(oldLog, newLines) ==
    LET newLog == <<fileHeadline, <<>>>> \o newLines
    IN  newLog \o CopyOldLog(oldLog, newLog, 1)

(* ------------------------------ inputs -------------------------------- *)

Digits == <<"1", "2", "3", "4", "5", "6", "7", "8", "9">>

\* the heading triggerProcessor builds, `## ${date} by ${changeUserId}`:
\* one distinct heading per trigger
HeadingOf(p) == <<"#", "#", " ", Digits[p]>>

\* `Content update from Directus CMS by ${changeUserId}`
CommitMsgOf(p) == <<"m", "s", "g", " ", Digits[p]>>

\* the value of the monitored field in the payload of trigger p: two list
\* items, or (every second trigger) only white space and so no list item
RawOf(p) == IF p % 2 = 1 THEN <<"-", "a", NL, " ", "b">> ELSE <<" ">>

\* the value of a field the payload does not hold (no text: not a sequence
\* of characters)
Undefined == <<"undefined">>

\* the branch of the repository that the configuration is meant to name
WorkBranch == <<"b">>

BaseInput ==
    [ user |-> <<"u">>, password |-> <<"p">>, serverUrl |-> <<"s">>,
      projectName |-> <<"j">>, repositoryName |-> <<"r">>,
      branchName |-> WorkBranch, changelogFile |-> <<"f">> ]

ConfigFields == DOMAIN BaseInput

\* the arguments of applyConfig: complete, or one value empty or blank
ConfigInputs ==
    {BaseInput} \cup
    { [BaseInput EXCEPT ![f] = b] : f \in ConfigFields, b \in {<<>>, <<" ">>} }

\* all sequences over a set, up to a length
SeqsUpTo(S, n) == UNION { [1..k -> S] : k \in 0..n }

\* the texts a user enters in the monitored field: list dashes, spaces,
\* letters, line feeds and the carriage returns of CRLF line ends
RawChars == {"-", " ", "a", "b", NL, "\r"}
RawTexts == SeqsUpTo(RawChars, MaxRawLen)

\* the texts of the runs that format an entry and insert it into a log: a
\* plain line, a list item, an empty line, a blank line and a plain line
\* (as newInputContent of the tests, one letter for each line's words), and
\* a single list item
EndToEndTexts ==
    { <<"a", NL, "-", " ", "b", NL, NL, " ", NL, "a">>, <<"-", " ", "a">> }

\* the headlines given to formatLatestChanges
Headlines == {<<"#">>, <<>>}

\* the lines of a changelog file read back: the headline, as written or
\* with white space around it, empty and blank lines, other text
paddedHeadline == <<" ">> \o fileHeadline \o <<" ">>
OldLines == {fileHeadline, paddedHeadline, <<>>, <<" ">>, <<"x">>}
OldLogs == SeqsUpTo(OldLines, MaxOldLen)

\* the lines of a new entry
NewLines == {<<"-", " ", "n">>, <<>>, fileHeadline}
NewBlocks == SeqsUpTo(NewLines, MaxNewLen)

\* 'bitbucket', in the two spellings the environment may use
bitbucket == <<"b", "i", "t", "b", "u", "c", "k", "e", "t">>
BitBucket == <<"B", "i", "t", "B", "u", "c", "k", "e", "t">>

\* String.prototype.toLowerCase (for the letters the inputs use)
LowerChar(c) == IF c = "B" THEN "b" ELSE c

\* (variant: the text is compared as it was written)
ToLowerCaseKeep(s) == s

ToLowerCase(s) == [i \in 1..Len(s) |-> LowerChar(s[i])]

\* the environment variables the extension reads: all set
BaseEnv ==
    [ VERSION_CONTROL_CHANGELOG_COLLECTION |-> <<"c">>,
      VERSION_CONTROL_CHANGELOG_FIELD_NAME |-> <<"n">>,
      VERSION_CONTROL_CHANGELOG_VCS_SERVER_URL |-> <<"s">>,
      VERSION_CONTROL_CHANGELOG_VCS_PROJECT |-> <<"j">>,
      VERSION_CONTROL_CHANGELOG_VCS_REPOSITORY |-> <<"r">>,
      VERSION_CONTROL_CHANGELOG_VCS_BRANCH |-> WorkBranch,
      VERSION_CONTROL_CHANGELOG_VCS_FILENAME |-> <<"f">>,
      VERSION_CONTROL_CHANGELOG_VCS |-> bitbucket,
      VERSION_CONTROL_CHANGELOG_BITBUCKET_USER |-> <<"u">>,
      VERSION_CONTROL_CHANGELOG_BITBUCKET_PASSWORD |-> <<"p">> ]

EnvNames == DOMAIN BaseEnv

\* the environments of a run: complete (with the credentials of one account
\* or of another), one variable not set, empty or blank, or another
\* spelling or value of the VCS kind
EnvInputs ==
    {BaseEnv, [BaseEnv EXCEPT !.VERSION_CONTROL_CHANGELOG_BITBUCKET_USER = <<"v">>,
                              !.VERSION_CONTROL_CHANGELOG_BITBUCKET_PASSWORD = <<"q">>]}
    \cup { [BaseEnv EXCEPT ![n] = v] : n \in EnvNames, v \in {Undefined, <<>>, <<" ">>} }
    \cup { [BaseEnv EXCEPT !.VERSION_CONTROL_CHANGELOG_VCS = v] :
              v \in {BitBucket, <<" ">> \o bitbucket, <<"g", "i", "t">>} }
    \cup { [BaseEnv EXCEPT !.VERSION_CONTROL_CHANGELOG_VCS = <<"g", "i", "t">>,
                           !.VERSION_CONTROL_CHANGELOG_BITBUCKET_USER = <<"v">>,
                           !.VERSION_CONTROL_CHANGELOG_BITBUCKET_PASSWORD = <<"q">>] }

\* the database schemas of a run: the monitored collection and its field
\* exist, the field is missing, or the collection is
Databases ==
    { [table |-> TRUE, column |-> TRUE], [table |-> TRUE, column |-> FALSE],
      [table |-> FALSE, column |-> FALSE] }

OldDocument ==
    <<fileHeadline, <<>>, <<"#", "#", " ", "0">>, <<"-", " ", "o">>>>

\* a changelog whose history holds the headline once more (as the merge of
\* an entry into a file edited by hand to start with an empty line leaves it)
TitledHistory ==
    <<fileHeadline, <<>>, <<"#", "#", " ", "0">>, fileHeadline>>

\* what the changelog file holds on the branch when the run starts
InitContents ==
    { Join(OldDocument, NL), Join(<<fileHeadline, <<>>>>, NL), Join(TitledHistory, NL) }

\* the enum ExceptionTypes
ExceptionTypes ==
    [ InvalidConfigException |-> 0, InvalidCredentialsException |-> 1,
      FailedValidationException |-> 2, UnexpectedResponseException |-> 3,
      BaseException |-> 4 ]

\* the exception classes a host hands to the hook, by their names: those
\* of Directus, and the mocks of the tests
HostExceptions ==
    [ BaseException |-> "directus.BaseException",
      InvalidConfigException |-> "directus.InvalidConfigException",
      InvalidCredentialsException |-> "directus.InvalidCredentialsException",
      UnexpectedResponseException |-> "directus.UnexpectedResponseException",
      FailedValidationException |-> "directus.FailedValidationException" ]

MockExceptions ==
    [ BaseException |-> "mock.BaseException",
      InvalidConfigException |-> "mock.InvalidConfigException",
      InvalidCredentialsException |-> "mock.InvalidCredentialsException",
      UnexpectedResponseException |-> "mock.UnexpectedResponseException",
      FailedValidationException |-> "mock.FailedValidationException" ]

\* the field directusExceptions before anything was injected: no class can
\* be read from it
NoExceptions == [n \in DOMAIN HostExceptions |-> "undefined"]

\* the messages asked for
Messages == {"b", "ico"}

ExceptionTypeValues == {ExceptionTypes[n] : n \in DOMAIN ExceptionTypes}

(* ------------------------------- state -------------------------------- *)

VARIABLES
    isConfigured, authentication, serverConfig, changelogFile, \* BitbucketVersionControl
    applied, applyError,         \* applyConfig was called, and what it threw
    trigger,                     \* per trigger: how triggerProcessor ended
    event,                       \* per trigger: what the handler was given
    pc, result,                  \* per addToChangelogFile call: position, outcome
    newContent, commitMessage,   \* its arguments
    lastCommitId, tempLines,     \* its locals
    calls,                       \* the remote requests it issued, in order
    publishLog,                  \* per trigger: what the handler and the call logged
    branch, commits,             \* the repository: working branch, its history
    isLastPage,                  \* the repository: its branches fit in one page
    applyArgs,                   \* the arguments applyConfig was called with
    env, db,                     \* the host: environment, database schema
    vcsAbstraction,              \* ChangelogWriter: the instance exists
    registered, caught, setupLog, \* the hook: handler registered, error caught, log
    userChangelog, entryHeadline, formattedChanges, firstChanges, \* formatLatestChanges
    oldLog, newLines, newLog,    \* insertNewEntryIntoLog
    fstep,                       \* ChangelogFormatter used on its own: position
    instance, objects,           \* ExceptionProvider.instance (0: not set), objects made
    directusExceptions,          \* the exceptions injected into the stored instance
    returned, providerCalls,     \* ExceptionProvider used on its own: last result, calls
    userDetails, changeUserId    \* extractUserId used on its own: argument, result

vars ==
    <<isConfigured, authentication, serverConfig, changelogFile, applied,
      applyError, trigger, event, pc, result, newContent, commitMessage, lastCommitId,
      tempLines, calls, publishLog, branch, commits, isLastPage, applyArgs, env, db,
      vcsAbstraction, registered, caught, setupLog, userChangelog, entryHeadline,
      formattedChanges, firstChanges, oldLog, newLines, newLog, fstep, instance,
      objects, directusExceptions, returned, providerCalls, userDetails,
      changeUserId>>

configVars ==
    <<isConfigured, authentication, serverConfig, changelogFile, applied, applyError,
      applyArgs>>
remoteVars == <<branch, commits>>
hostVars == <<env, db, vcsAbstraction, caught, setupLog, isLastPage>>
formatterVars ==
    <<userChangelog, entryHeadline, formattedChanges, firstChanges, oldLog,
      newLines, newLog, fstep>>

providerVars == <<instance, objects, directusExceptions, returned, providerCalls>>
userVars == <<userDetails, changeUserId>>

\* the repository before the first trigger: the branch and the file exist
\* (EnvDeleteFile and EnvDeleteBranch lead to the states without them)
InitialCommit(c) == [parent |-> 0, message |-> <<>>, by |-> 0, file |-> TRUE, content |-> c]

\* the value applyArgs holds while applyConfig was not called
NoArgs == [f \in ConfigFields |-> Undefined]

\* ChangelogFormatter is not used on its own
FormatterIdle ==
    /\ userChangelog = <<>>
    /\ entryHeadline = <<>>
    /\ formattedChanges = <<>>
    /\ firstChanges = <<>>
    /\ oldLog = <<>>
    /\ newLines = <<>>
    /\ newLog = <<>>
    /\ fstep = "idle"

\* nothing was returned or thrown yet
NothingReturned ==
    [op |-> "none", thrown |-> FALSE, object |-> 0, class |-> "none", message |-> "",
     exceptionType |-> 0, asked |-> ""]

\* the class ExceptionProvider after its module was loaded: the static
\* initializer has stored the one instance
ProviderLoaded ==
    /\ instance = 1
    /\ objects = 1
    /\ returned = NothingReturned
    /\ providerCalls = 0

\* the value null of a column of the user record
Null == <<"null">>

\* extractUserId is not used on its own: no record read, nothing returned
NoUser ==
    [email |-> Null, external_identifier |-> Null, first_name |-> Null,
     last_name |-> Null, id |-> <<>>]
UserIdle ==
    /\ userDetails = NoUser
    /\ changeUserId = Undefined

\* no event handled yet
NoEvent == [users |-> 0 - 1, field |-> FALSE]

\* what the handler was given: the number of user records found for the
\* acting user and whether the payload holds the monitored field
EventOf(nUsers, changeContent) ==
    [users |-> nUsers, field |-> changeContent # Undefined]

\* a new BitbucketVersionControl, no trigger processed, no call made
InstanceInit ==
    /\ isConfigured = FALSE
    /\ authentication = [user |-> <<>>, password |-> <<>>, token |-> <<>>]
    /\ serverConfig = [serverUrl |-> <<>>, projectName |-> <<>>,
                       repositoryName |-> <<>>, branchName |-> <<>>]
    /\ changelogFile = <<>>
    /\ applied = FALSE
    /\ applyError = "none"
    /\ trigger = [p \in Publishes |-> "none"]
    /\ event = [p \in Publishes |-> NoEvent]
    /\ pc = [p \in Publishes |-> "idle"]
    /\ result = [p \in Publishes |-> "none"]
    /\ newContent = [p \in Publishes |-> <<>>]
    /\ commitMessage = [p \in Publishes |-> <<>>]
    /\ lastCommitId = [p \in Publishes |-> 0]
    /\ tempLines = [p \in Publishes |-> <<>>]
    /\ calls = [p \in Publishes |-> <<>>]
    /\ publishLog = [p \in Publishes |-> <<>>]
    /\ applyArgs = NoArgs
    /\ registered = FALSE
    /\ caught = "none"
    /\ setupLog = <<>>

\* the class used directly: the environment and the database play no part
Init ==
    /\ InstanceInit
    /\ UserIdle
    /\ vcsAbstraction = TRUE
    /\ branch = TRUE
    /\ \E c \in InitContents : commits = <<InitialCommit(c)>>
    /\ isLastPage = TRUE
    /\ env = BaseEnv
    /\ db = [table |-> TRUE, column |-> TRUE]
    /\ FormatterIdle
    /\ ProviderLoaded
    /\ directusExceptions = HostExceptions

(* ------------------------------ applyConfig --------------------------- *)

\* (variant: the password is not checked)
ApplyConfigErrorUserOnly(a) ==
    IF \/ Trim(a.serverUrl) = <<>>
       \/ Trim(a.projectName) = <<>>
       \/ Trim(a.repositoryName) = <<>>
    THEN "InvalidConfigException"
    ELSE IF Trim(a.changelogFile) = <<>> THEN "InvalidConfigException"
    ELSE IF Trim(a.user) = <<>> THEN "InvalidCredentialsException"
    ELSE "none"

\* the exception applyConfig throws for its arguments, "none" if it returns
ApplyConfigError(a) ==
    IF \/ Trim(a.serverUrl) = <<>>
       \/ Trim(a.projectName) = <<>>
       \/ Trim(a.repositoryName) = <<>>
       \/ Trim(a.repositoryName) = <<>>
    THEN "InvalidConfigException"
    ELSE IF Trim(a.changelogFile) = <<>> THEN "InvalidConfigException"
    ELSE IF Trim(a.user) = <<>> \/ Trim(a.password) = <<>>
    THEN "InvalidCredentialsException"
    ELSE "none"

\* the method: what it does to the instance
applyConfig(a) ==
    /\ applied' = TRUE
    /\ applyArgs' = a
    /\ applyError' = ApplyConfigError(a)
    /\ IF ApplyConfigError(a) = "none"
       THEN /\ authentication' = [user |-> a.user, password |-> a.password, token |-> <<>>]
            /\ serverConfig' = [serverUrl |-> a.serverUrl, projectName |-> a.projectName,
                                repositoryName |-> a.repositoryName,
                                branchName |-> a.branchName]
            /\ changelogFile' = a.changelogFile
            /\ isConfigured' = TRUE
       ELSE UNCHANGED <<authentication, serverConfig, changelogFile, isConfigured>>

\* ChangelogWriter's constructor calls applyConfig once, and the update
\* handler is registered when the constructor returned, hence before any
\* trigger is processed (here with arguments of any kind)
CallApplyConfig(a) ==
    /\ ~applied
    /\ \A p \in Publishes : trigger[p] = "none"
    /\ applyConfig(a)
    /\ registered' = (ApplyConfigError(a) = "none")
    /\ UNCHANGED <<trigger, event, pc, result, newContent, commitMessage, lastCommitId,
                   tempLines, calls, publishLog, branch, commits, hostVars,
                   formatterVars, providerVars, userVars>>

(* ------------------------- the remote repository ---------------------- *)

\* How a remote request can end: the server's own answers are status 200,
\* 404 (the branch or the file does not exist) and 409 (the push names a
\* stale sourceCommitId); any request can also end with another 2xx status
\* ("status2xx"), or with another 4xx/5xx status or no response at all
\* ("error").
Injected == {"status2xx", "error"}

\* axios rejects the promise of a request whose status is outside 2xx and
\* of a request that got no response
AxiosRejects(outcome) == outcome \in {"notFound", "conflict", "error"}

HeadCommit == Len(commits)

\* the configured branch name resolves to the existing working branch
BranchFound == branch /\ serverConfig.branchName = WorkBranch

FileFound == BranchFound /\ commits[HeadCommit].file

\* the lines the browse endpoint reports for a file: the text split at the
\* line feeds, a final line feed starting a further, empty line or not
WithoutFinalNL(s) ==
    IF s # <<>> /\ s[Len(s)] = NL THEN SubSeq(s, 1, Len(s) - 1) ELSE s

BrowseLines(s) ==
    IF s = <<>> THEN {<<>>, Split(s, NL)}
    ELSE {Split(s, NL), Split(WithoutFinalNL(s), NL)}

\* the server's check of a push: with a sourceCommitId the file must exist
\* and be unchanged since that commit, without one the file must not exist
PushAccepted(req) ==
    IF req.hasSource
    THEN /\ req.sourceCommitId \in 1..HeadCommit
         /\ commits[req.sourceCommitId].file
         /\ commits[HeadCommit].file
         /\ commits[req.sourceCommitId].content = commits[HeadCommit].content
    ELSE ~commits[HeadCommit].file

CommitsAnswer == IF BranchFound THEN "ok200" ELSE "notFound"
BrowseAnswer == IF FileFound THEN "ok200" ELSE "notFound"
PutAnswer(req) ==
    IF ~BranchFound THEN "notFound"
    ELSE IF PushAccepted(req) THEN "ok200" ELSE "conflict"

\* someone deletes the changelog file on the branch (a commit of its own)
EnvDeleteFile ==
    /\ branch
    /\ commits[HeadCommit].file
    /\ commits' = Append(commits, [parent |-> HeadCommit, message |-> <<>>, by |-> 0,
                                   file |-> FALSE, content |-> <<>>])
    /\ UNCHANGED <<branch, configVars, trigger, event, pc, result, newContent,
                   commitMessage, lastCommitId, tempLines, calls, publishLog,
                   registered, hostVars, formatterVars, providerVars, userVars>>

\* someone deletes the working branch
EnvDeleteBranch ==
    /\ branch
    /\ branch' = FALSE
    /\ UNCHANGED <<commits, configVars, trigger, event, pc, result, newContent,
                   commitMessage, lastCommitId, tempLines, calls, publishLog,
                   registered, hostVars, formatterVars, providerVars, userVars>>

(* -------------------------- addToChangelogFile ------------------------ *)

\* (variant: the auth option is built once, when the instance is constructed
\* and its credentials are still empty)
bitbucketApiAuthHeaderInitial == [username |-> <<>>, password |-> <<>>]

\* the auth option of a request, built from this.authentication when the
\* call runs (for the push: right before the push is sent)
bitbucketApiAuthHeader ==
    [username |-> authentication.user, password |-> authentication.password]

\* a request as sent: its auth option, and for the push, whether the form holds a sourceCommitId
\* and which; commitId is the head commit a commits request is answered with
Request(kind, hasSource, sourceCommitId) ==
    [kind |-> kind, outcome |-> "pending", hasSource |-> hasSource,
     sourceCommitId |-> sourceCommitId, commitId |-> 0, auth |-> bitbucketApiAuthHeader]

\* the last request of p, answered
Answered(p, outcome) ==
    LET req == calls[p][Len(calls[p])]
    IN  [calls[p] EXCEPT ![Len(calls[p])] =
            [req EXCEPT !.outcome = outcome,
                        !.commitId = IF req.kind = "commits" /\ outcome = "ok200"
                                     THEN HeadCommit ELSE 0]]

\* the commit id as the text a template string makes of it
IdText(id) == <<Digits[id]>>

\* (variant: the latest-commit message tells the account as well)
LatestCommitMessageWithAccount(id) ==
    <<"debug", "BitbucketVersionControl: latest commit in Directus Changelog Branch: ",
      IdText(id) \o authentication.user \o authentication.password>>

\* the message logged once the head commit of the branch is known
LatestCommitMessage(id) ==
    <<"debug", "BitbucketVersionControl: latest commit in Directus Changelog Branch: ",
      IdText(id)>>

\* the error logged for a returned status other than 200, by the step of
\* the call
StatusErrorMessage(step) ==
    IF step = "fetchCommit"
    THEN <<"error", "could not fetch the ID of the latest commit from Bitbucket">>
    ELSE IF step = "fetchFile"
    THEN <<"error",
           "BitbucketVersionControl: could not fetch the current changelog from Bitbucket">>
    ELSE <<"error", "BitbucketVersionControl: Could push the new changelog to Bitbucket">>

\* logMessage, called for trigger p with each of the entries in turn
Logged(p, entries) == publishLog' = [publishLog EXCEPT ![p] = publishLog[p] \o entries]

\* (variant: any returned status lets the call go on)
IsStatus200Any(outcome) == outcome \in {"ok200", "status2xx"}

\* `status !== 200` is false: the call goes on
IsStatus200(outcome) == outcome = "ok200"

\* (variant: a failed request is swallowed and success is signalled)
FailureResultTrue(outcome) == "true"

\* how the call ends when a request does not let it go on: the rejected
\* promise of the request is not caught, a status other than 200 is answered
\* with `return false`
FailureResult(outcome) == IF AxiosRejects(outcome) THEN "AxiosError" ELSE "false"

\* (variant: failure is signalled after the push went through)
PushedResultFalse == "false"

\* what the call returns after the push was answered with status 200
PushedResult == "true"

\* (variant: the commit id held by the first call is used by every call)
SourceCommitIdFirst(p) == lastCommitId[1]

\* the sourceCommitId form field of the push
SourceCommitId(p) == lastCommitId[p]

\* the content form field of the push
PutContent(p) == Join(insertNewEntryIntoLog(tempLines[p], newContent[p]), NL)

\* (variant: the request that failed is sent again)
AfterFailureRetry(cur) == cur

\* the position of the call after a request that did not let it go on
AfterFailure(cur) == "done"

\* (variant: the call does not look at isConfigured)
StartPublishUnchecked(p, nc, msg) ==
    /\ newContent' = [newContent EXCEPT ![p] = nc]
    /\ commitMessage' = [commitMessage EXCEPT ![p] = msg]
    /\ pc' = [pc EXCEPT ![p] = "fetchCommit"]
    /\ calls' = [calls EXCEPT ![p] = <<Request("commits", FALSE, 0)>>]
    /\ Logged(p, << <<"debug",
                      "BitbucketVersionControl: fetching last commit information">> >>)
    /\ UNCHANGED <<result, lastCommitId, tempLines, configVars, remoteVars, registered,
                   hostVars, formatterVars, providerVars, userVars>>

\* the call itself, up to its first await: the isConfigured check and the
\* request for the head commit of the branch
StartPublish(p, nc, msg) ==
    /\ newContent' = [newContent EXCEPT ![p] = nc]
    /\ commitMessage' = [commitMessage EXCEPT ![p] = msg]
    /\ IF ~isConfigured
       THEN /\ pc' = [pc EXCEPT ![p] = "done"]
            /\ result' = [result EXCEPT ![p] = "BaseException"]
            /\ UNCHANGED <<calls, publishLog>>
       ELSE /\ pc' = [pc EXCEPT ![p] = "fetchCommit"]
            /\ calls' = [calls EXCEPT ![p] = <<Request("commits", FALSE, 0)>>]
            /\ Logged(p, << <<"debug",
                              "BitbucketVersionControl: fetching last commit information">> >>)
            /\ UNCHANGED result
    /\ UNCHANGED <<lastCommitId, tempLines, configVars, remoteVars, registered,
                   hostVars, formatterVars, providerVars, userVars>>

\* the next unused trigger / call
Unused(p) ==
    /\ trigger[p] = "none"
    /\ \A q \in Publishes : q < p => trigger[q] # "none"

\* addToChangelogFile called on the instance directly
addToChangelogFile(p, raw) ==
    /\ Unused(p)
    /\ trigger' = [trigger EXCEPT ![p] = "direct"]
    /\ UNCHANGED event
    /\ StartPublish(p, formatLatestChanges(raw, HeadingOf(p)), CommitMsgOf(p))

\* a failed step: `return false` or the rejected promise of the request;
\* the locals of a call that has ended are gone
Fail(p, outcome) ==
    /\ pc' = [pc EXCEPT ![p] = AfterFailure(pc[p])]
    /\ IF AxiosRejects(outcome)
       THEN UNCHANGED publishLog
       ELSE Logged(p, <<StatusErrorMessage(pc[p])>>)
    /\ IF AfterFailure(pc[p]) = "done"
       THEN /\ result' = [result EXCEPT ![p] = FailureResult(outcome)]
            /\ calls' = [calls EXCEPT ![p] = Answered(p, outcome)]
            /\ lastCommitId' = [lastCommitId EXCEPT ![p] = 0]
            /\ tempLines' = [tempLines EXCEPT ![p] = <<>>]
       ELSE /\ calls' = [calls EXCEPT ![p] =
                           Append(Answered(p, outcome),
                                  [calls[p][Len(calls[p])] EXCEPT !.outcome = "pending"])]
            /\ UNCHANGED <<result, lastCommitId, tempLines>>

\* the answer to the request for the head commit; on status 200 the request
\* for the file content follows
fetchLastCommit(p, outcome) ==
    /\ pc[p] = "fetchCommit"
    /\ outcome \in {CommitsAnswer} \cup Injected
    /\ IF ~AxiosRejects(outcome) /\ IsStatus200(outcome)
       THEN /\ lastCommitId' = [lastCommitId EXCEPT ![p] = HeadCommit]
            /\ pc' = [pc EXCEPT ![p] = "fetchFile"]
            /\ calls' = [calls EXCEPT ![p] =
                           Append(Answered(p, outcome), Request("browse", FALSE, 0))]
            /\ Logged(p, << LatestCommitMessage(HeadCommit),
                            <<"debug",
                              "BitbucketVersionControl: fetching current changelog content">> >>)
            /\ UNCHANGED <<result, tempLines>>
       ELSE Fail(p, outcome)
    /\ UNCHANGED <<newContent, commitMessage, trigger, event, configVars, remoteVars,
                   registered, hostVars, formatterVars, providerVars, userVars>>

\* the answer to the request for the file content; on status 200 the new
\* log is built and the push is sent
fetchChangelog(p, outcome, lines) ==
    /\ pc[p] = "fetchFile"
    /\ outcome \in {BrowseAnswer} \cup Injected
    /\ lines \in BrowseLines(commits[HeadCommit].content)
    /\ IF ~AxiosRejects(outcome) /\ IsStatus200(outcome)
       THEN /\ tempLines' = [tempLines EXCEPT ![p] = lines]
            /\ pc' = [pc EXCEPT ![p] = "push"]
            /\ calls' = [calls EXCEPT ![p] =
                           Append(Answered(p, outcome),
                                  Request("put", TRUE, SourceCommitId(p)))]
            /\ Logged(p, << <<"debug",
                              "BitbucketVersionControl: committing changes to Bitbucket">> >>)
            /\ UNCHANGED <<result, lastCommitId>>
       ELSE Fail(p, outcome)
    /\ UNCHANGED <<newContent, commitMessage, trigger, event, configVars, remoteVars,
                   registered, hostVars, formatterVars, providerVars, userVars>>

\* the push, handled by the server, and its answer
putChangelog(p, outcome) ==
    /\ pc[p] = "push"
    /\ outcome \in {PutAnswer(calls[p][Len(calls[p])])} \cup Injected
    /\ IF outcome = "ok200"
       THEN commits' = Append(commits, [parent |-> HeadCommit, message |-> commitMessage[p],
                                        by |-> p, file |-> TRUE, content |-> PutContent(p)])
       ELSE UNCHANGED commits
    /\ IF ~AxiosRejects(outcome) /\ IsStatus200(outcome)
       THEN /\ pc' = [pc EXCEPT ![p] = "done"]
            /\ result' = [result EXCEPT ![p] = PushedResult]
            /\ calls' = [calls EXCEPT ![p] = Answered(p, outcome)]
            /\ lastCommitId' = [lastCommitId EXCEPT ![p] = 0]
            /\ tempLines' = [tempLines EXCEPT ![p] = <<>>]
            /\ UNCHANGED publishLog
       ELSE Fail(p, outcome)
    /\ UNCHANGED <<branch, newContent, commitMessage, trigger, event, configVars,
                   registered, hostVars, formatterVars, providerVars, userVars>>

(* --------------------------- triggerProcessor ------------------------- *)

\* (variant: only an empty list of user records is refused)
InvalidUserRecordsNoneOnly(nUsers) == nUsers = 0

\* `userDetails.length !== 1`
InvalidUserRecords(nUsers) == nUsers # 1

\* the update handler: nUsers user records were found for the acting user,
\* changeContent is the payload's value of the monitored field
triggerProcessor(p, nUsers, changeContent) ==
    /\ registered
    /\ Unused(p)
    /\ event' = [event EXCEPT ![p] = EventOf(nUsers, changeContent)]
    /\ IF ~vcsAbstraction
       THEN /\ trigger' = [trigger EXCEPT ![p] = "BaseException"]
            /\ UNCHANGED <<pc, result, newContent, commitMessage, lastCommitId,
                           tempLines, calls, publishLog, configVars, remoteVars,
                           registered, hostVars, formatterVars, providerVars, userVars>>
       ELSE IF InvalidUserRecords(nUsers)
       THEN /\ trigger' = [trigger EXCEPT ![p] = "UnexpectedResponseException"]
            /\ UNCHANGED <<pc, result, newContent, commitMessage, lastCommitId,
                           tempLines, calls, publishLog, configVars, remoteVars,
                           registered, hostVars, formatterVars, providerVars, userVars>>
       ELSE IF changeContent = Undefined
       THEN /\ trigger' = [trigger EXCEPT ![p] = "warned"]
            /\ Logged(p, << <<"warn", "Things in the changelog collection changed, but not in the monitored field. Make sure this is wanted behavior...">> >>)
            /\ UNCHANGED <<pc, result, newContent, commitMessage, lastCommitId,
                           tempLines, calls, configVars, remoteVars, registered,
                           hostVars, formatterVars, providerVars, userVars>>
       ELSE /\ trigger' = [trigger EXCEPT ![p] = "published"]
            /\ StartPublish(p, formatLatestChanges(changeContent, HeadingOf(p)),
                            CommitMsgOf(p))

(* --------------------------- ExceptionProvider ------------------------ *)

ManualInstantiation ==
    "Error: Manual instantiation forbidden - use ExceptionProvider.getInstance() instead of new."

\* (variant: the constructor does not look at the stored instance)
ConstructorThrowsNever == FALSE

\* the constructor's check: an instance is stored already
ConstructorThrows == instance # 0

\* the constructor, run for a new object: it throws, or stores the object
Constructor(op) ==
    IF ConstructorThrows
    THEN /\ returned' = [NothingReturned EXCEPT !.op = op, !.thrown = TRUE,
                                                !.class = "Error",
                                                !.message = ManualInstantiation]
         /\ UNCHANGED <<instance, objects>>
    ELSE /\ instance' = objects + 1
         /\ objects' = objects + 1
         /\ returned' = [NothingReturned EXCEPT !.op = op, !.object = objects + 1]

\* the static initializer of the class, run when its module is loaded:
\* `instance = new ExceptionProvider()`
LoadExceptionProvider ==
    /\ objects = 0
    /\ Constructor("load")
    /\ UNCHANGED <<directusExceptions, providerCalls>>

\* `new ExceptionProvider()` somewhere in the program
NewExceptionProvider ==
    /\ objects >= 1
    /\ providerCalls < MaxProviderCalls
    /\ providerCalls' = providerCalls + 1
    /\ Constructor("new")
    /\ UNCHANGED directusExceptions

\* ExceptionProvider.getInstance()
getInstance ==
    /\ objects >= 1
    /\ providerCalls < MaxProviderCalls
    /\ providerCalls' = providerCalls + 1
    /\ returned' = [NothingReturned EXCEPT !.op = "getInstance", !.object = instance]
    /\ UNCHANGED <<instance, objects, directusExceptions>>

\* injectDirectusExceptions called on the stored instance
injectDirectusExceptions(exceptions) ==
    /\ instance # 0
    /\ providerCalls < MaxProviderCalls
    /\ providerCalls' = providerCalls + 1
    /\ directusExceptions' = exceptions
    /\ returned' = [NothingReturned EXCEPT !.op = "injectDirectusExceptions"]
    /\ UNCHANGED <<instance, objects>>

\* (variant: two cases of the switch name each other's class)
ExceptionClassSwapped(exceptionType) ==
    CASE exceptionType = ExceptionTypes.InvalidConfigException ->
            directusExceptions.InvalidConfigException
      [] exceptionType = ExceptionTypes.InvalidCredentialsException ->
            directusExceptions.InvalidCredentialsException
      [] exceptionType = ExceptionTypes.FailedValidationException ->
            directusExceptions.UnexpectedResponseException
      [] exceptionType = ExceptionTypes.UnexpectedResponseException ->
            directusExceptions.FailedValidationException
      [] exceptionType = ExceptionTypes.BaseException ->
            directusExceptions.BaseException
      [] OTHER -> "undefined"

\* the class the switch of getNewException constructs ("undefined": the
\* switch has no case and the method returns nothing)
ExceptionClass(exceptionType) ==
    CASE exceptionType = ExceptionTypes.InvalidConfigException ->
            directusExceptions.InvalidConfigException
      [] exceptionType = ExceptionTypes.InvalidCredentialsException ->
            directusExceptions.InvalidCredentialsException
      [] exceptionType = ExceptionTypes.FailedValidationException ->
            directusExceptions.FailedValidationException
      [] exceptionType = ExceptionTypes.UnexpectedResponseException ->
            directusExceptions.UnexpectedResponseException
      [] exceptionType = ExceptionTypes.BaseException ->
            directusExceptions.BaseException
      [] OTHER -> "undefined"

\* getNewException called on the stored instance: `new` of the class of the
\* kind with the message; `new` of something that is no class throws a
\* TypeError
getNewException(exceptionType, message) ==
    /\ instance # 0
    /\ providerCalls < MaxProviderCalls
    /\ providerCalls' = providerCalls + 1
    /\ IF ExceptionClass(exceptionType) = "undefined"
       THEN /\ returned' = [NothingReturned EXCEPT !.op = "getNewException",
                                                   !.thrown = TRUE,
                                                   !.class = "TypeError",
                                                   !.exceptionType = exceptionType,
                                                   !.asked = message]
            /\ UNCHANGED objects
       ELSE /\ returned' = [op |-> "getNewException", thrown |-> FALSE,
                            object |-> objects + 1,
                            class |-> ExceptionClass(exceptionType),
                            message |-> message, exceptionType |-> exceptionType,
                            asked |-> message]
            /\ objects' = objects + 1
    /\ UNCHANGED <<instance, directusExceptions>>

(* ------------------------------- the hook ----------------------------- *)

\* configValueChecker: the value is not set, or empty after trimming
Missing(value) == value = Undefined \/ Trim(value) = <<>>

\* the variables configReader checks first, in its order
ConfigChecks ==
    << "VERSION_CONTROL_CHANGELOG_COLLECTION",
       "VERSION_CONTROL_CHANGELOG_FIELD_NAME",
       "VERSION_CONTROL_CHANGELOG_VCS_SERVER_URL",
       "VERSION_CONTROL_CHANGELOG_VCS_PROJECT",
       "VERSION_CONTROL_CHANGELOG_VCS_REPOSITORY",
       "VERSION_CONTROL_CHANGELOG_VCS_BRANCH",
       "VERSION_CONTROL_CHANGELOG_VCS_FILENAME",
       "VERSION_CONTROL_CHANGELOG_VCS" >>

\* the credentials it checks once the VCS kind is known, in its order
CredentialChecks ==
    << "VERSION_CONTROL_CHANGELOG_BITBUCKET_USER",
       "VERSION_CONTROL_CHANGELOG_BITBUCKET_PASSWORD" >>

NoException == [type |-> "none", message |-> <<>>]

\* the first of the listed variables that is missing (0: none is)
FirstMissing(e, names) ==
    IF \E i \in 1..Len(names) : Missing(e[names[i]])
    THEN CHOOSE i \in 1..Len(names) :
            /\ Missing(e[names[i]])
            /\ \A j \in 1..(i - 1) : ~Missing(e[names[j]])
    ELSE 0

\* the exception configReader throws for an environment
configReader(e) ==
    IF FirstMissing(e, ConfigChecks) # 0
    THEN [type |-> "InvalidConfigException",
          message |-> <<"is missing", ConfigChecks[FirstMissing(e, ConfigChecks)]>>]
    ELSE IF ToLowerCase(e.VERSION_CONTROL_CHANGELOG_VCS) # bitbucket
    THEN [type |-> "InvalidConfigException",
          message |-> <<"VCS provider is unknown", e.VERSION_CONTROL_CHANGELOG_VCS>>]
    ELSE IF FirstMissing(e, CredentialChecks) # 0
    THEN [type |-> "InvalidCredentialsException",
          message |-> <<"is missing or empty",
                        CredentialChecks[FirstMissing(e, CredentialChecks)]>>]
    ELSE NoException

\* what the constructor hands to applyConfig
ReadConfig(e) ==
    [ user |-> e.VERSION_CONTROL_CHANGELOG_BITBUCKET_USER,
      password |-> e.VERSION_CONTROL_CHANGELOG_BITBUCKET_PASSWORD,
      serverUrl |-> e.VERSION_CONTROL_CHANGELOG_VCS_SERVER_URL,
      projectName |-> e.VERSION_CONTROL_CHANGELOG_VCS_PROJECT,
      repositoryName |-> e.VERSION_CONTROL_CHANGELOG_VCS_REPOSITORY,
      branchName |-> e.VERSION_CONTROL_CHANGELOG_VCS_BRANCH,
      changelogFile |-> e.VERSION_CONTROL_CHANGELOG_VCS_FILENAME ]

\* checkForTable and checkForColumn are async: called without await they
\* return the promise of the answer of the database, not the answer
checkForTable(d) == <<"promise", d.table>>
checkForColumn(d) == <<"promise", d.column>>

\* the `!` of the constructor's two checks: true of the boolean false only,
\* never of an object such as a promise
Not(value) == value[1] = "boolean" /\ ~value[2]

\* the exception the constructor of ChangelogWriter throws
ConstructorError(e, d) ==
    IF configReader(e).type # "none" THEN configReader(e)
    ELSE IF Not(checkForTable(d))
    THEN [type |-> "InvalidConfigException", message |-> <<"collection was not found">>]
    ELSE IF Not(checkForColumn(d))
    THEN [type |-> "InvalidConfigException", message |-> <<"field was not found">>]
    ELSE [type |-> ApplyConfigError(ReadConfig(e)), message |-> <<"applyConfig">>]

\* the constructor reached its call of applyConfig
ReachesApplyConfig(e, d) ==
    /\ configReader(e).type = "none"
    /\ ~Not(checkForTable(d))
    /\ ~Not(checkForColumn(d))

\* what the catch of the hook logs for an exception
CatchLog(x) ==
    IF x.type = "InvalidConfigException"
    THEN <<"error", "Configuration error on initialization: ", x.message>>
    ELSE IF x.type = "InvalidCredentialsException"
    THEN <<"error", "Credential error on initialization: ", x.message>>
    ELSE IF x.type = "FailedValidationException"
    THEN <<"error", "Validation failure on initialization: ", x.message>>
    ELSE <<"error", "Extension could not be initialized:", x>>

\* everything the hook logs, in order
HookLog(e, d) ==
    << <<"debug", "Validating configuration...">> >>
    \o (IF configReader(e).type = "none"
        THEN << <<"debug", "Bitbucket Version Control Abstraction created">>,
                <<"debug", "Checking if configured collection and field exist...">> >>
        ELSE <<>>)
    \o (IF ReachesApplyConfig(e, d)
        THEN << <<"debug", "Applying config to Version Control Abstraction...">> >>
        ELSE <<>>)
    \o (IF ConstructorError(e, d).type = "none"
        THEN << <<"info", "Extension initialized, action handler registered">> >>
        ELSE << CatchLog(ConstructorError(e, d)) >>)

\* the function given to defineHook, run once by the host: it constructs the
\* ChangelogWriter and registers the update handler, or catches and logs
\* what the constructor threw
defineHook ==
    /\ ~registered
    /\ caught = "none"
    /\ instance # 0
    /\ vcsAbstraction' = (configReader(env).type = "none")
    /\ IF ReachesApplyConfig(env, db)
       THEN applyConfig(ReadConfig(env))
       ELSE UNCHANGED configVars
    /\ registered' = (ConstructorError(env, db).type = "none")
    /\ caught' = ConstructorError(env, db).type
    /\ setupLog' = HookLog(env, db)
    /\ directusExceptions' = HostExceptions
    /\ UNCHANGED <<env, db, isLastPage, trigger, event, pc, result, newContent, commitMessage,
                   lastCommitId, tempLines, calls, publishLog, remoteVars,
                   formatterVars, instance, objects, returned, providerCalls,
                   userVars>>

(* ------------------- ChangelogFormatter used on its own --------------- *)

programVars ==
    <<configVars, trigger, event, pc, result, newContent, commitMessage, lastCommitId,
      tempLines, calls, publishLog, remoteVars, registered, hostVars, providerVars, userVars>>

\* the list items of an entry: what follows its headline and empty line
ItemsOf(entry) == SubSeq(entry, 3, Len(entry))

\* formatLatestChanges called with a text and a headline
FormatLatestChanges ==
    /\ fstep = "raw"
    /\ formattedChanges' = formatLatestChanges(userChangelog, entryHeadline)
    /\ fstep' = "formatted"
    /\ UNCHANGED <<userChangelog, entryHeadline, firstChanges, oldLog, newLines, newLog,
                   programVars>>

\* formatLatestChanges called again, with the list items it returned joined
\* by line feeds
FormatAgain ==
    /\ fstep = "formatted"
    /\ firstChanges' = formattedChanges
    /\ userChangelog' = Join(ItemsOf(formattedChanges), NL)
    /\ formattedChanges' = formatLatestChanges(userChangelog', entryHeadline)
    /\ fstep' = "formattedAgain"
    /\ UNCHANGED <<entryHeadline, oldLog, newLines, newLog, programVars>>

\* insertNewEntryIntoLog called with a log and the lines of a new entry
InsertNewEntryIntoLog ==
    /\ fstep = "lines"
    /\ newLog' = insertNewEntryIntoLog(oldLog, newLines)
    /\ fstep' = "inserted"
    /\ UNCHANGED <<userChangelog, entryHeadline, formattedChanges, firstChanges, oldLog,
                   newLines, programVars>>

\* the lines formatLatestChanges returned inserted into a log, as
\* triggerProcessor and addToChangelogFile do between them
InsertFormatted ==
    /\ fstep = "formatted"
    /\ newLines' = formattedChanges
    /\ newLog' = insertNewEntryIntoLog(oldLog, formattedChanges)
    /\ fstep' = "merged"
    /\ UNCHANGED <<userChangelog, entryHeadline, formattedChanges, firstChanges, oldLog,
                   programVars>>

(* ---------------------------- specification --------------------------- *)

Outcomes == {"ok200", "notFound", "conflict"} \cup Injected

\* The class used directly.  The update handler is registered only after
\* applyConfig returned, so triggerProcessor runs on a configured instance;
\* addToChangelogFile is
\* called directly only on an instance that is not configured (on a
\* configured one the call of triggerProcessor is the same call).
Next ==
    \/ \E a \in ConfigInputs : CallApplyConfig(a)
    \/ \E p \in Publishes : ~isConfigured /\ addToChangelogFile(p, RawOf(p))
    \/ \E p \in Publishes, n \in 0..2 :
          \E c \in {RawOf(p), Undefined} : triggerProcessor(p, n, c)
    \/ \E p \in Publishes, o \in Outcomes : fetchLastCommit(p, o)
    \/ \E p \in Publishes, o \in Outcomes :
          \E l \in BrowseLines(commits[HeadCommit].content) : fetchChangelog(p, o, l)
    \/ \E p \in Publishes, o \in Outcomes : putChangelog(p, o)
    \/ EnvDeleteFile
    \/ EnvDeleteBranch

Spec == Init /\ [][Next]_vars

\* The extension run by its host: the hook is set up from the environment
\* and the database, and the host delivers the update events to the
\* handler the hook registered.
HookInit ==
    /\ InstanceInit
    /\ UserIdle
    /\ vcsAbstraction = FALSE
    /\ branch = TRUE
    /\ \E c \in InitContents : commits = <<InitialCommit(c)>>
    /\ isLastPage \in BOOLEAN
    /\ env \in EnvInputs
    /\ db \in Databases
    /\ FormatterIdle
    /\ ProviderLoaded
    /\ directusExceptions = NoExceptions

HookNext ==
    \/ defineHook
    \/ \E p \in HookTriggers, n \in 0..2 :
          \E c \in {RawOf(p), Undefined} : triggerProcessor(p, n, c)
    \/ \E p \in HookTriggers, o \in Outcomes : fetchLastCommit(p, o)
    \/ \E p \in HookTriggers, o \in Outcomes :
          \E l \in BrowseLines(commits[HeadCommit].content) : fetchChangelog(p, o, l)
    \/ \E p \in HookTriggers, o \in Outcomes : putChangelog(p, o)
    \/ EnvDeleteFile
    \/ EnvDeleteBranch

HookSpec == HookInit /\ [][HookNext]_vars

\* ChangelogFormatter used on its own, as its tests do: formatLatestChanges
\* on a text and a headline, insertNewEntryIntoLog on a log and an entry, or
\* the first and then the second on what the first returned.
FormatterInit ==
    /\ InstanceInit
    /\ UserIdle
    /\ vcsAbstraction = FALSE
    /\ branch = TRUE
    /\ commits = <<InitialCommit(Join(OldDocument, NL))>>
    /\ isLastPage = TRUE
    /\ env = BaseEnv
    /\ db = [table |-> TRUE, column |-> TRUE]
    /\ ProviderLoaded
    /\ directusExceptions = HostExceptions
    /\ formattedChanges = <<>>
    /\ firstChanges = <<>>
    /\ newLog = <<>>
    /\ \/ /\ fstep = "raw"
          /\ userChangelog \in RawTexts
          /\ entryHeadline \in Headlines
          /\ oldLog = <<>>
          /\ newLines = <<>>
       \/ /\ fstep = "raw"
          /\ userChangelog \in EndToEndTexts
          /\ entryHeadline = <<"#">>
          /\ oldLog \in OldLogs \cup {OldDocument}
          /\ newLines = <<>>
       \/ /\ fstep = "lines"
          /\ userChangelog = <<>>
          /\ entryHeadline = <<>>
          /\ oldLog \in OldLogs
          /\ newLines \in NewBlocks

FormatterNext ==
    \/ FormatLatestChanges
    \/ FormatAgain
    \/ InsertNewEntryIntoLog
    \/ InsertFormatted

FormatterSpec == FormatterInit /\ [][FormatterNext]_vars

\* ExceptionProvider used on its own, as its tests do, from the loading of
\* its module on.
otherVars ==
    <<configVars, trigger, event, pc, result, newContent, commitMessage, lastCommitId,
      tempLines, calls, publishLog, remoteVars, registered, hostVars, formatterVars, userVars>>

ProviderInit ==
    /\ InstanceInit
    /\ UserIdle
    /\ vcsAbstraction = FALSE
    /\ branch = TRUE
    /\ commits = <<InitialCommit(Join(OldDocument, NL))>>
    /\ isLastPage = TRUE
    /\ env = BaseEnv
    /\ db = [table |-> TRUE, column |-> TRUE]
    /\ FormatterIdle
    /\ instance = 0
    /\ objects = 0
    /\ directusExceptions = NoExceptions
    /\ returned = NothingReturned
    /\ providerCalls = 0

ProviderNext ==
    \/ LoadExceptionProvider /\ UNCHANGED otherVars
    \/ NewExceptionProvider /\ UNCHANGED otherVars
    \/ getInstance /\ UNCHANGED otherVars
    \/ \E x \in {HostExceptions, MockExceptions} :
          injectDirectusExceptions(x) /\ UNCHANGED otherVars
    \/ \E t \in ExceptionTypeValues, m \in Messages :
          getNewException(t, m) /\ UNCHANGED otherVars

ProviderSpec == ProviderInit /\ [][ProviderNext]_vars

(* ----------------------------- extractUserId ------------------------- *)

UnknownText == <<"U", "n", "k", "n", "o", "w", "n">>

\* ` (ID: ${userDetails.id})`
IdSuffix(id) == <<" ", "(", "I", "D", ":", " ">> \o id \o <<")">>

\* changeUserId after the look at the email and the external identifier
EmailOrExternalId(u) ==
    LET fromEmail == IF u.email # Null THEN u.email ELSE <<>>
    IN  IF /\ Trim(fromEmail) = <<>>
           /\ u.external_identifier # Null
           /\ Trim(u.external_identifier) # <<>>
        THEN u.external_identifier
        ELSE fromEmail

\* the variable name after the look at first_name and last_name
NameOf(u) ==
    LET first == IF u.first_name # Null THEN Trim(u.first_name) ELSE <<>>
    IN  IF u.last_name # Null
        THEN IF first # <<>>
             THEN first \o (<<" ">> \o Trim(u.last_name))
             ELSE Trim(u.last_name)
        ELSE first

extractUserId(u) ==
    IF Trim(EmailOrExternalId(u)) = <<>>
    THEN IF NameOf(u) = <<>>
         THEN UnknownText \o IdSuffix(u.id)
         ELSE NameOf(u) \o IdSuffix(u.id)
    ELSE EmailOrExternalId(u)

\* the values of a text column: null, empty, blank, a text, a text with
\* white space around it
ColumnValues(c) == {Null, <<>>, <<" ">>, <<c>>, <<" ", c, " ">>}

\* the user records: the id is always set, every other column may be null
UserRecords ==
    [email : ColumnValues("e"), external_identifier : ColumnValues("x"),
     first_name : ColumnValues("f"), last_name : ColumnValues("l"), id : {<<"7">>}]

\* line 314 of triggerProcessor, for the one record the query returned
ExtractUserId ==
    /\ changeUserId = Undefined
    /\ changeUserId' = extractUserId(userDetails)
    /\ UNCHANGED userDetails

\* extractUserId used on its own, on every kind of user record
UserInit ==
    /\ InstanceInit
    /\ vcsAbstraction = TRUE
    /\ branch = TRUE
    /\ commits = <<InitialCommit(Join(OldDocument, NL))>>
    /\ isLastPage = TRUE
    /\ env = BaseEnv
    /\ db = [table |-> TRUE, column |-> TRUE]
    /\ FormatterIdle
    /\ ProviderLoaded
    /\ directusExceptions = HostExceptions
    /\ userDetails \in UserRecords
    /\ changeUserId = Undefined

UserNext ==
    ExtractUserId
    /\ UNCHANGED <<configVars, trigger, event, pc, result, newContent, commitMessage,
                   lastCommitId, tempLines, calls, publishLog, remoteVars,
                   registered, hostVars, formatterVars, providerVars>>

UserSpec == UserInit /\ [][UserNext]_vars

(* ------------------------- vocabulary of the claims ------------------- *)

Done(p) == pc[p] = "done"

Failures == {"false", "AxiosError", "BaseException"}

\* the positions of p's requests of one kind
CallsOf(p, kind) == {i \in 1..Len(calls[p]) : calls[p][i].kind = kind}

\* some request of p ended with the given outcome
HasOutcome(p, outcome) == \E i \in 1..Len(calls[p]) : calls[p][i].outcome = outcome

\* every request of p got the server's own answer
ServedNormally(p) == \A i \in 1..Len(calls[p]) : calls[p][i].outcome \notin Injected

\* the head commit p's commits request was answered with (0: none)
ResolvedHead(p) == IF calls[p] = <<>> THEN 0 ELSE calls[p][1].commitId

\* the commits of the history that p's push made
CommitsBy(p) == {i \in 1..Len(commits) : commits[i].by = p}

\* text t occurs in text s
IsInfix(t, s) == \E i \in 0..(Len(s) - Len(t)) : SubSeq(s, i + 1, i + Len(t)) = t

\* the entry of p as text, without the line feed that ends it when its last
\* line is empty (a file may or may not give that empty line back)
EntryText(p) == WithoutFinalNL(Join(newContent[p], NL))

\* nobody but the calls of addToChangelogFile committed after commit i
NoOtherWriterSince(i) == branch /\ \A j \in (i + 1)..Len(commits) : commits[j].by # 0

(* -------------------------------- C1 ---------------------------------- *)

\* C1: addToChangelogFile on a configured instance never lets a failure
\* escape: whenever one of its remote requests failed (a status other than
\* 200, or an error thrown by the HTTP client), the call ends with the
\* boolean false.
C1_FailureReturnsFalse ==
    \A p \in Publishes :
        (Done(p) /\ \E i \in 1..Len(calls[p]) : calls[p][i].outcome # "ok200")
            => result[p] = "false"

(* -------------------------------- C2 ---------------------------------- *)

\* p and q resolved the same head commit and both went on to push
Raced(p, q) ==
    /\ p # q
    /\ ResolvedHead(p) # 0
    /\ ResolvedHead(p) = ResolvedHead(q)
    /\ CallsOf(p, "put") # {}
    /\ CallsOf(q, "put") # {}

\* C2: of two calls that race on the branch and the file (same head commit
\* read, both push) at most one reports success; the push of the other, when
\* the server answers it, is rejected for its stale sourceCommitId and the
\* call reports a failure; and the file holds the entry of every call that
\* reported success (as long as nobody else changed the branch afterwards).
C2_RaceHasOneWinner ==
    /\ \A p, q \in Publishes :
          (Raced(p, q) /\ result[p] = "true") =>
             /\ result[q] # "true"
             /\ (Done(q) /\ branch /\ ServedNormally(q)) =>
                   /\ calls[q][Len(calls[q])].outcome = "conflict"
                   /\ result[q] \in Failures
    /\ \A p \in Publishes :
          (result[p] = "true" /\ \A i \in CommitsBy(p) : NoOtherWriterSince(i)) =>
             IsInfix(EntryText(p), commits[HeadCommit].content)

C2_Witness ==
    \E p, q \in Publishes :
        /\ Raced(p, q)
        /\ result[p] = "true"
        /\ Done(q)
        /\ calls[q][Len(calls[q])].outcome = "conflict"
        /\ NoOtherWriterSince(1)

(* -------------------------------- C3 ---------------------------------- *)

\* C3: a call that finds the target file absent on the working branch goes
\* on to push, and its push carries no sourceCommitId field.
C3_AbsentFilePushedWithoutParent ==
    \A p \in Publishes :
        (/\ Done(p)
         /\ branch
         /\ ServedNormally(p)
         /\ \E i \in CallsOf(p, "browse") : calls[p][i].outcome = "notFound")
            => \E i \in CallsOf(p, "put") : ~calls[p][i].hasSource

(* -------------------------------- C4 ---------------------------------- *)

\* C4: a call that finds the working branch missing creates the branch and
\* only then lists or reads files.
C4_MissingBranchCreatedFirst ==
    \A p \in Publishes :
        (/\ Done(p)
         /\ ServedNormally(p)
         /\ \E i \in CallsOf(p, "commits") : calls[p][i].outcome = "notFound")
            => \E i \in CallsOf(p, "createBranch") :
                  \A j \in CallsOf(p, "browse") : i < j

(* -------------------------------- C5 ---------------------------------- *)

\* C5: a call that starts when the branch or the file is missing, every
\* request being served normally, reports success and commits the file with
\* the content [title, "", ...newLines].
C5_MissingFileOrBranchIsCreated ==
    \A p \in Publishes :
        (/\ Done(p)
         /\ ServedNormally(p)
         /\ \E i \in 1..2 : i <= Len(calls[p]) /\ calls[p][i].outcome = "notFound")
            => /\ result[p] = "true"
               /\ \E i \in CommitsBy(p) :
                     /\ commits[i].file
                     /\ commits[i].content = Join(<<fileHeadline, <<>>>> \o newContent[p], NL)

(* -------------------------------- C6 ---------------------------------- *)

\* the push of p was accepted and p reports success
PushSucceeds(p) ==
    /\ pc[p] = "push"
    /\ pc'[p] = "done"
    /\ result'[p] = "true"
    /\ branch' = branch
    /\ Len(commits') = Len(commits) + 1
    /\ SubSeq(commits', 1, Len(commits)) = commits
    /\ commits'[Len(commits')].by = p

\* C6: the repository changes only by the accepted push of a call that then
\* reports success (or by somebody else's deletion): no other step of a call
\* changes the branch, the head commit or the file, and a call that has not
\* reported success has committed nothing.
C6_FailedPublishCommitsNothing ==
    /\ [][ remoteVars' # remoteVars =>
             \/ EnvDeleteFile
             \/ EnvDeleteBranch
             \/ \E p \in Publishes : PushSucceeds(p) ]_vars
    /\ [](\A p \in Publishes : result[p] # "true" => CommitsBy(p) = {})

C6_Witness ==
    \E p \in Publishes :
        /\ Done(p)
        /\ result[p] \in Failures
        /\ CallsOf(p, "put") # {}
        /\ CommitsBy(p) = {}
        /\ Len(commits) = 1
        /\ branch

(* -------------------------------- C7 ---------------------------------- *)

\* C7: the commit made by a call that returns true holds, as the file, the
\* lines insertNewEntryIntoLog(lines of the file at the parent commit,
\* newContent) joined by line feeds, carries the commit message of the call,
\* is the only commit of the call, and its parent is the commit right before
\* it, which is the head commit the call resolved.
C7_SuccessfulPublishCommit ==
    \A p \in Publishes :
        /\ result[p] = "true" => Cardinality(CommitsBy(p)) = 1
        /\ \A i \in CommitsBy(p) :
              /\ commits[i].parent = i - 1
              /\ commits[i].parent = ResolvedHead(p)
              /\ commits[i].message = commitMessage[p]
              /\ commits[i].file
              /\ \E lines \in BrowseLines(commits[i - 1].content) :
                    commits[i].content =
                        Join(<<fileHeadline, <<>>>> \o newContent[p]
                                \o CopyOldLog(lines, <<fileHeadline, <<>>>>, 1), NL)

C7_Witness ==
    \E p \in Publishes :
        /\ result[p] = "true"
        /\ CommitsBy(p) = {HeadCommit}
        /\ HeadCommit > 2
        /\ commits[HeadCommit - 1].by \notin {0, p}

(* -------------------------------- C8 ---------------------------------- *)

\* C8: every push carries, as sourceCommitId, the head commit that the same
\* call was answered with by its own commits request, and it follows the
\* commits request and the browse request of that same call; while the push
\* is being prepared or is under way the call holds no other commit id.
C8_PushUsesOwnFreshHead ==
    \A p \in Publishes :
        /\ \A i \in CallsOf(p, "put") :
              /\ calls[p][i].hasSource
              /\ calls[p][i].sourceCommitId = ResolvedHead(p)
              /\ ResolvedHead(p) # 0
              /\ i = 3
              /\ calls[p][1].kind = "commits"
              /\ calls[p][2].kind = "browse"
        /\ pc[p] \in {"fetchFile", "push"} => lastCommitId[p] = ResolvedHead(p)
        /\ pc[p] \in {"idle", "fetchCommit", "done"} =>
              lastCommitId[p] = 0 /\ tempLines[p] = <<>>

C8_Witness ==
    \E p, q \in Publishes :
        /\ result[p] = "true"
        /\ result[q] = "true"
        /\ calls[p][3].sourceCommitId = 1
        /\ calls[q][3].sourceCommitId = 2

(* -------------------------------- C9 ---------------------------------- *)

CallOrder == <<"commits", "browse", "put">>

\* C9: the requests of a call are issued in the order commits, browse, put,
\* each only after every earlier one was answered with status 200, and after
\* a request that was not, the call has ended and issued nothing further.
C9_StepsGateEachOther ==
    \A p \in Publishes :
        /\ Len(calls[p]) <= 3
        /\ \A i \in 1..Len(calls[p]) :
              /\ calls[p][i].kind = CallOrder[i]
              /\ i < Len(calls[p]) => calls[p][i].outcome = "ok200"
              /\ calls[p][i].outcome \notin {"ok200", "pending"} =>
                    /\ i = Len(calls[p])
                    /\ Done(p)
                    /\ result[p] \in Failures
              /\ calls[p][i].outcome = "pending" => ~Done(p)

C9_Witness ==
    \E p, q \in Publishes :
        /\ Done(p)
        /\ Len(calls[p]) = 2
        /\ calls[p][2].outcome = "status2xx"
        /\ Done(q)
        /\ Len(calls[q]) = 3
        /\ calls[q][3].outcome = "error"

(* -------------------------------- C10 --------------------------------- *)

\* C10: a call issues each kind of request at most once, so at most three
\* requests and one push, and makes at most one commit; once it has ended it
\* stays ended with the result and the requests it had: nothing retries it.
C10_NoRetry ==
    /\ [](\A p \in Publishes :
            /\ \A k \in {"commits", "browse", "put"} : Cardinality(CallsOf(p, k)) <= 1
            /\ Len(calls[p]) <= 3
            /\ Cardinality(CommitsBy(p)) <= 1)
    /\ [][ \A p \in Publishes :
             Done(p) => /\ pc'[p] = "done"
                        /\ result'[p] = result[p]
                        /\ calls'[p] = calls[p]
                        /\ trigger'[p] = trigger[p] ]_vars

C10_Witness ==
    \E p, q \in Publishes :
        /\ Done(p)
        /\ result[p] \in Failures
        /\ HasOutcome(p, "error")
        /\ pc[q] = "push"
        /\ p < q

(* -------------------------------- C11 --------------------------------- *)

\* C11: while the repository holds more branches than one page of the
\* branch list reports, a call ends with an UnexpectedResponseException and
\* issues no request for the head commit and no push.
C11_MoreBranchPagesAborts ==
    ~isLastPage =>
        \A p \in Publishes :
            /\ CallsOf(p, "commits") = {}
            /\ CallsOf(p, "put") = {}
            /\ Done(p) => result[p] = "UnexpectedResponseException"

(* -------------------------------- C12 --------------------------------- *)

NamingFields == {"serverUrl", "projectName", "repositoryName", "branchName", "changelogFile"}

\* the instance as its constructor left it
HoldsNoConfig ==
    /\ ~isConfigured
    /\ authentication = [user |-> <<>>, password |-> <<>>, token |-> <<>>]
    /\ serverConfig = [serverUrl |-> <<>>, projectName |-> <<>>,
                       repositoryName |-> <<>>, branchName |-> <<>>]
    /\ changelogFile = <<>>

\* C12: applyConfig called with a server URL, project name, repository
\* name, branch name or changelog file that is empty or blank throws an
\* InvalidConfigException, and the instance stays unconfigured with the
\* configuration and credentials it held.
C12_BlankConfigRejected ==
    (applied /\ \E f \in NamingFields : Trim(applyArgs[f]) = <<>>) =>
        /\ applyError = "InvalidConfigException"
        /\ HoldsNoConfig

(* -------------------------------- C13 --------------------------------- *)

\* C13: applyConfig called with all five naming values non-blank and a user
\* or a password that is empty or blank throws an
\* InvalidCredentialsException, and the instance stays unconfigured.
C13_BlankCredentialsRejected ==
    (/\ applied
     /\ \A f \in NamingFields : Trim(applyArgs[f]) # <<>>
     /\ Trim(applyArgs.user) = <<>> \/ Trim(applyArgs.password) = <<>>) =>
        /\ applyError = "InvalidCredentialsException"
        /\ ~isConfigured

C13_Witness ==
    /\ applied
    /\ applyArgs.user = <<"u">>
    /\ applyArgs.password = <<" ">>
    /\ applyArgs.branchName = WorkBranch
    /\ applyError = "InvalidCredentialsException"
    /\ \E p \in Publishes : result[p] = "BaseException"

(* -------------------------------- C14 --------------------------------- *)

\* the hook ran
SetupDone == setupLog # <<>>

\* something the setup reads or checks is not as it must be
SetupFails ==
    \/ configReader(env).type # "none"
    \/ ~db.table
    \/ ~db.column
    \/ ApplyConfigError(ReadConfig(env)) # "none"

\* C14: the update handler is registered only by a setup in which reading
\* the configuration, the checks of the collection and of the field, and
\* applyConfig all succeeded; a setup in which one of them fails logs an
\* error, registers no handler, and no trigger is processed and no remote
\* request is issued afterwards (nor before the setup).
C14_FailedSetupRegistersNothing ==
    /\ (SetupDone /\ SetupFails) =>
          /\ ~registered
          /\ caught # "none"
          /\ setupLog[Len(setupLog)][1] = "error"
    /\ (~SetupDone \/ SetupFails) =>
          \A p \in Publishes : trigger[p] = "none" /\ calls[p] = <<>>

(* -------------------------------- C15 --------------------------------- *)

NonBlank(line) == Trim(line) # <<>>

\* the lines of the text given to formatLatestChanges that are not blank
SourceLines == SelectSeq(Split(userChangelog, NL), NonBlank)

\* what a line says: the line without the white space and dashes it starts
\* with and the white space it ends with
RECURSIVE DropBullet(_)
DropBullet(line) ==
    IF line # <<>> /\ (IsWhitespace(Head(line)) \/ Head(line) = "-")
    THEN DropBullet(Tail(line)) ELSE line

Said(line) == TrimEnd(DropBullet(line))

\* C15: formatLatestChanges returns the headline, an empty line, and then
\* one list item for each line of the text that is not blank after trimming,
\* in the order of the text, each saying what its line says; blank lines
\* give nothing, and the headline and the empty line are there even when no
\* item is.
C15_OneItemPerNonBlankLine ==
    fstep = "formatted" =>
        /\ Len(formattedChanges) = 2 + Len(SourceLines)
        /\ formattedChanges[1] = entryHeadline
        /\ formattedChanges[2] = <<>>
        /\ \A i \in 1..Len(SourceLines) :
              /\ Trim(formattedChanges[2 + i]) # <<>>
              /\ Said(formattedChanges[2 + i]) = Said(SourceLines[i])

C15_Witness ==
    /\ fstep = "formatted"
    /\ userChangelog = <<NL, "a", NL, "b">>
    /\ Len(formattedChanges) = 4

(* -------------------------------- C16 --------------------------------- *)

\* C16: every list item formatLatestChanges returns starts with "- ", and
\* the character after that prefix is not a dash.
C16_ItemsStartWithDashSpace ==
    fstep = "formatted" =>
        \A i \in 3..Len(formattedChanges) :
            /\ StartsWith(formattedChanges[i], <<"-", " ">>)
            /\ Len(formattedChanges[i]) > 2 => formattedChanges[i][3] # "-"

(* -------------------------------- C17 --------------------------------- *)

\* a line cleaned up: trimmed, its leading dash removed, trimmed again
CleanedUp(line) ==
    IF StartsWith(Trim(line), <<"-">>) THEN Trim(Tail(Trim(line))) ELSE Trim(line)

\* C17: every list item formatLatestChanges returns is "- " followed by its
\* source line cleaned up: without the white space around it (leading and
\* trailing spaces, the carriage return of a CRLF line end) and without its
\* leading dash.
C17_ItemsAreCleanedUp ==
    fstep = "formatted" =>
        /\ Len(formattedChanges) = 2 + Len(SourceLines)
        /\ \A i \in 1..Len(SourceLines) :
              formattedChanges[2 + i] = <<"-", " ">> \o CleanedUp(SourceLines[i])

(* -------------------------------- C18 --------------------------------- *)

\* C18: formatting the list items that formatLatestChanges returned, joined
\* by line feeds, with the same headline returns the same entry.
C18_FormatIsIdempotent ==
    fstep = "formattedAgain" => formattedChanges = firstChanges

(* -------------------------------- C19 --------------------------------- *)

\* C19: insertNewEntryIntoLog of the empty log and the lines of an entry
\* returns the file headline, an empty line and the lines of the entry, and
\* nothing after them.
C19_InsertIntoEmptyLog ==
    (fstep = "inserted" /\ oldLog = <<>>) =>
        newLog = <<fileHeadline, <<>>>> \o newLines

C19_Witness ==
    /\ fstep = "inserted"
    /\ oldLog = <<>>
    /\ newLines = << <<"-", " ", "n">>, <<>> >>
    /\ Len(newLog) = 4

(* -------------------------------- C20 --------------------------------- *)

\* the log starts with the file headline (white space around it aside) and
\* a blank line
StartsWithHeadline(log) ==
    /\ Len(log) >= 2
    /\ Trim(log[1]) = Trim(fileHeadline)
    /\ Trim(log[2]) = <<>>

OtherFirstLine(log) == Len(log) >= 1 /\ Trim(log[1]) # Trim(fileHeadline)

C22_BlankLineBeforeOldLines ==
    (/\ fstep = "merged"
     /\ Len(newLines) > 2
     /\ Len(CopyOldLog(oldLog, <<fileHeadline, <<>>>>, 1)) >= 1) =>
        LET first == CopyOldLog(oldLog, <<fileHeadline, <<>>>>, 1)[1]
            last  == 2 + Len(newLines)
        IN  /\ Len(newLog) >= last + 2
            /\ newLog[last + 1] = <<>>
            /\ newLog[last + 2] = first

(* -------------------------------- C25 --------------------------------- *)

\* C25: whatever the log holds, the log insertNewEntryIntoLog returns has
\* the file headline as its first line, an empty line as its second and the
\* lines of the entry, in their order, from its third line on.
C25_EntryRightBelowHeadline ==
    fstep \in {"inserted", "merged"} =>
        /\ Len(newLog) >= 2 + Len(newLines)
        /\ newLog[1] = fileHeadline
        /\ newLog[2] = <<>>
        /\ SubSeq(newLog, 3, 2 + Len(newLines)) = newLines

C25_Witness ==
    /\ fstep = "inserted"
    /\ oldLog = <<<<"x">>, fileHeadline, <<>>>>
    /\ newLines = << <<"-", " ", "n">>, fileHeadline >>
    /\ newLog = <<fileHeadline, <<>>, <<"-", " ", "n">>, fileHeadline,
                  <<"x">>, fileHeadline, <<>>>>

(* -------------------------------- C23 --------------------------------- *)

\* the lines of the file of a commit (the line feed that ends the file
\* starts no further line)
DocLines(i) == Split(WithoutFinalNL(commits[i].content), NL)

\* the entries of a document: its lines below the headline and its empty line
HistoryOf(i) == SubSeq(DocLines(i), 3, Len(DocLines(i)))

IsSuffix(t, s) == Len(t) <= Len(s) /\ SubSeq(s, Len(s) - Len(t) + 1, Len(s)) = t

\* commit j was reached from commit i by pushes of addToChangelogFile only
PublishedFrom(i, j) ==
    /\ i < j
    /\ commits[i].file
    /\ \A k \in (i + 1)..j : commits[k].by # 0 /\ commits[k].parent = k - 1

\* C23: history is only prepended to.  The lines of a document from its
\* third on are, unchanged and in their order, the last lines of every
\* document that later successful publishes make of it, a line equal to
\* the file headline among them included.
C23_HistoryIsASuffix ==
    \A i, j \in 1..Len(commits) :
        PublishedFrom(i, j) => IsSuffix(HistoryOf(i), DocLines(j))

C23_Witness ==
    /\ Len(commits) = 3
    /\ PublishedFrom(1, 3)
    /\ commits[1].content = Join(TitledHistory, NL)
    /\ HistoryOf(2) # HistoryOf(1)
    /\ \E k \in 5..Len(DocLines(3)) : DocLines(3)[k] = fileHeadline

(* -------------------------------- C24 --------------------------------- *)

\* the lines of the file of a commit as they were joined
WrittenLines(i) == Split(commits[i].content, NL)

\* the headline is a line of the entry
HoldsTitle(lines) == \E k \in 1..Len(lines) : lines[k] = fileHeadline

\* the headline is a line of the document below its first
TitleBelow(lines) == \E k \in 2..Len(lines) : lines[k] = fileHeadline

\* C24 (as stated): after successful publishes that started from a document
\* beginning with the file headline and a blank line, the first line of the
\* document is the file headline, its second line is blank and no other
\* line of it is the file headline.
C24_OneTitleOnly ==
    \A j \in 2..Len(commits) :
        (PublishedFrom(1, j) /\ StartsWithHeadline(WrittenLines(1))) =>
            /\ WrittenLines(j)[1] = fileHeadline
            /\ Trim(WrittenLines(j)[2]) = <<>>
            /\ ~TitleBelow(WrittenLines(j))

\* C24 (amended): after successful publishes that started from a document
\* beginning with the file headline and a blank line and holding the
\* headline on no other line, and that published entries none of whose
\* lines is the headline, the first line of the document is the file
\* headline, its second line is blank and no other line of it is the file
\* headline.
C24_OneTitleUnlessHistoryHeldIt ==
    \A j \in 2..Len(commits) :
        (/\ PublishedFrom(1, j)
         /\ StartsWithHeadline(WrittenLines(1))
         /\ ~TitleBelow(WrittenLines(1))
         /\ \A k \in 2..j : ~HoldsTitle(newContent[commits[k].by])) =>
            /\ WrittenLines(j)[1] = fileHeadline
            /\ Trim(WrittenLines(j)[2]) = <<>>
            /\ ~TitleBelow(WrittenLines(j))

C24_Witness ==
    /\ Len(commits) = 3
    /\ PublishedFrom(1, 3)
    /\ commits[1].content = Join(OldDocument, NL)
    /\ Len(WrittenLines(3)) > Len(WrittenLines(2))

(* -------------------------------- C27 --------------------------------- *)

\* C27: every remote request of addToChangelogFile carries the user and the
\* password that were given to the applyConfig that succeeded; no request
\* is sent with the empty credentials the instance holds before that (on an
\* instance that is not configured no request is sent at all).
C27_RequestsCarryConfiguredCredentials ==
    \A p \in Publishes :
        /\ calls[p] # <<>> => applyError = "none" /\ applied
        /\ \A i \in 1..Len(calls[p]) :
              /\ calls[p][i].auth = [username |-> applyArgs.user,
                                     password |-> applyArgs.password]
              /\ calls[p][i].auth.username # <<>>
              /\ calls[p][i].auth.password # <<>>

C27_Witness ==
    /\ env.VERSION_CONTROL_CHANGELOG_BITBUCKET_USER = <<"v">>
    /\ Len(calls[1]) = 3
    /\ calls[1][3].kind = "put"
    /\ calls[1][3].auth = [username |-> <<"v">>, password |-> <<"q">>]
    /\ result[1] = "true"

(* -------------------------------- C26 --------------------------------- *)

CredentialNames ==
    {"VERSION_CONTROL_CHANGELOG_BITBUCKET_USER", "VERSION_CONTROL_CHANGELOG_BITBUCKET_PASSWORD"}

\* a user and a password are configured
HasCredentials(e) == \A n \in CredentialNames : ~Missing(e[n])

\* the environments of the runs that differ from the run with e in nothing
\* but the configured user and password
Twins(e) ==
    { t \in EnvInputs : /\ HasCredentials(t)
                        /\ \A n \in EnvNames \ CredentialNames : t[n] = e[n] }

\* the texts that the messages logged for the triggers hold besides their
\* fixed words
LoggedValues ==
    UNION { { publishLog[p][k][3] :
                k \in {i \in 1..Len(publishLog[p]) : Len(publishLog[p][i]) = 3} } :
            p \in Publishes }

\* C26: the user and the password are never logged.  Of two runs that
\* differ only in the user and the password configured, the setup (its
\* error handler included) logs the same messages, and no message logged
\* while a change is published holds the user or the password, on any
\* path: the messages are fixed words and the id of the head commit.
C26_CredentialsNotLogged ==
    (SetupDone /\ HasCredentials(env)) =>
        /\ \A t \in Twins(env) : HookLog(t, db) = setupLog
        /\ \A v \in LoggedValues :
              /\ ~IsInfix(env.VERSION_CONTROL_CHANGELOG_BITBUCKET_USER, v)
              /\ ~IsInfix(env.VERSION_CONTROL_CHANGELOG_BITBUCKET_PASSWORD, v)

C26_Witness ==
    /\ SetupDone
    /\ env.VERSION_CONTROL_CHANGELOG_BITBUCKET_USER = <<"v">>
    /\ Cardinality(Twins(env)) = 2
    /\ Len(publishLog[1]) = 4
    /\ LoggedValues # {}
    /\ result[1] = "true"

(* -------------------------------- C28 --------------------------------- *)

\* the text is 'bitbucket', upper and lower case taken as equal
IsBitbucketIgnoringCase(v) ==
    /\ Len(v) = Len(bitbucket)
    /\ \A i \in 1..Len(v) : v[i] \in {bitbucket[i], BitBucket[i]}

\* every variable the setup checks before the kind of the VCS is set
NamingIsSet == \A i \in 1..(Len(ConfigChecks) - 1) : ~Missing(env[ConfigChecks[i]])

\* C28: the setup accepts as kind of the VCS exactly 'bitbucket', upper and
\* lower case taken as equal.  With any other kind, or the kind not set,
\* empty or blank, it ends with InvalidConfigException, creates no VCS
\* abstraction and registers nothing; with 'bitbucket' in any case (and the
\* variables checked before it set) it does not end with
\* InvalidConfigException, and creates the abstraction once the credentials
\* are set too.
C28_ExactlyBitbucketIgnoringCase ==
    SetupDone =>
        IF IsBitbucketIgnoringCase(env.VERSION_CONTROL_CHANGELOG_VCS)
        THEN NamingIsSet =>
                /\ caught # "InvalidConfigException"
                /\ HasCredentials(env) => vcsAbstraction
        ELSE /\ caught = "InvalidConfigException"
             /\ ~vcsAbstraction
             /\ ~registered

C28_Witness ==
    /\ SetupDone
    /\ env.VERSION_CONTROL_CHANGELOG_VCS = BitBucket
    /\ vcsAbstraction
    /\ registered

(* -------------------------------- C29 --------------------------------- *)

\* C29: ExceptionProvider is a singleton.  Once the class is loaded, the
\* stored instance is in every state the object its static initializer
\* made; every `new ExceptionProvider()` fails with the error 'Manual
\* instantiation forbidden' and leaves the stored instance as it is, and
\* every getInstance returns that one object.
C29_OneInstanceOnly ==
    objects >= 1 =>
        /\ instance = 1
        /\ returned.op = "new" =>
              /\ returned.thrown
              /\ returned.class = "Error"
              /\ returned.message = ManualInstantiation
        /\ returned.op = "getInstance" => returned.object = 1

C29_Witness ==
    /\ returned.op = "new"
    /\ returned.thrown
    /\ providerCalls = 2
    /\ instance = 1

(* -------------------------------- C30 --------------------------------- *)

\* the names of the kinds of exception, in the order of the enum
KindNames ==
    << "InvalidConfigException", "InvalidCredentialsException",
       "FailedValidationException", "UnexpectedResponseException", "BaseException" >>

\* C30: once exception classes were injected, getNewException(kind,
\* message) returns, for each of the five kinds, a new object of the
\* injected class of exactly that kind, holding that message; it throws
\* nothing and never returns nothing or an object of another kind.
C30_RightKindAndMessage ==
    (returned.op = "getNewException" /\ directusExceptions # NoExceptions) =>
        /\ ~returned.thrown
        /\ returned.exceptionType \in 0..(Len(KindNames) - 1)
        /\ returned.class = directusExceptions[KindNames[returned.exceptionType + 1]]
        /\ returned.message = returned.asked
        /\ returned.object = objects
        /\ returned.object # instance

C30_Witness ==
    /\ returned.op = "getNewException"
    /\ directusExceptions = MockExceptions
    /\ returned.exceptionType = ExceptionTypes.FailedValidationException
    /\ returned.class = "mock.FailedValidationException"
    /\ returned.message = "ico"

(* -------------------------------- C31 --------------------------------- *)

\* the call of addToChangelogFile for trigger p has started and not ended
InFlight(p) == pc[p] \notin {"idle", "done"}

\* C31: at most one publish is in flight at a time.  Whatever triggers the
\* host delivers, no two calls of addToChangelogFile are under way at once:
\* a call starts only when the call before it has ended.
C31_OnePublishInFlight ==
    \A p, q \in Publishes : (p # q) => ~(InFlight(p) /\ InFlight(q))

(* -------------------------------- C33 --------------------------------- *)

\* C33: addToChangelogFile cannot be used before applyConfig.  On an
\* instance on which applyConfig was never called, or only failed, every
\* call has ended with an exception and has sent no request; a request was
\* sent only on an instance on which a call of applyConfig succeeded.
C33_NoPublishBeforeConfigure ==
    \A p \in Publishes :
        /\ (pc[p] # "idle" /\ ~(applied /\ applyError = "none")) =>
              /\ pc[p] = "done"
              /\ result[p] = "BaseException"
              /\ calls[p] = <<>>
        /\ calls[p] # <<>> => (applied /\ applyError = "none" /\ isConfigured)

C33_Witness ==
    /\ applied
    /\ applyError = "InvalidCredentialsException"
    /\ result[1] = "BaseException"
    /\ result[2] = "BaseException"
    /\ calls[2] = <<>>

(* -------------------------------- C34 --------------------------------- *)

\* C34: with everything else configured, the construction of the
\* ChangelogWriter fails with InvalidConfigException when the database
\* does not hold the configured collection, and when it holds the
\* collection without the configured field; it succeeds (and the handler
\* is registered) only when both exist.
C34_MissingCollectionOrFieldRejected ==
    (SetupDone /\ env = BaseEnv) =>
        /\ (~db.table \/ ~db.column) => caught = "InvalidConfigException"
        /\ registered => (db.table /\ db.column)

(* -------------------------------- C35 --------------------------------- *)

\* the entries of the pushes that made the commits i+1 .. j, the last first
RECURSIVE BlocksDown(_, _)
BlocksDown(i, j) ==
    IF j <= i THEN <<>> ELSE newContent[commits[j].by] \o BlocksDown(i, j - 1)

\* lines as the lines of the file they are joined to
AsFileLines(lines) == Split(WithoutFinalNL(Join(lines, NL)), NL)

\* C35: entries stay in reverse order of publication.  After successful
\* publishes e1 .. ek, in that order and with no other writer, the file is
\* the headline, an empty line, the entry ek, then e(k-1), and so on down
\* to e1, and then what the file held below its headline before e1.
C35_NewestEntryFirst ==
    \A i, j \in 1..Len(commits) :
        (PublishedFrom(i, j) /\ StartsWithHeadline(WrittenLines(i))) =>
            DocLines(j) = AsFileLines(<<fileHeadline, <<>>>> \o BlocksDown(i, j)
                                      \o HistoryOf(i))

C35_Witness ==
    /\ Len(commits) = 3
    /\ PublishedFrom(1, 3)
    /\ commits[2].by = 1
    /\ commits[3].by = 2
    /\ commits[1].content = Join(OldDocument, NL)
    /\ DocLines(3) = <<fileHeadline, <<>>>> \o newContent[2] \o newContent[1]
                     \o HistoryOf(1)

\* trigger p was handled by triggerProcessor
Handled(p) == event[p] # NoEvent

\* the handler of trigger p called addToChangelogFile
PublishCalled(p) == pc[p] # "idle"

IsBlankColumn(t) == t = Null \/ Trim(t) = <<>>

\* the name of the record: its first and its last name where both are
\* set, else the one that is set
FirstAndOrLastName(u) ==
    IF ~IsBlankColumn(u.first_name) /\ ~IsBlankColumn(u.last_name)
    THEN Trim(u.first_name) \o <<" ">> \o Trim(u.last_name)
    ELSE IF ~IsBlankColumn(u.first_name)
    THEN Trim(u.first_name)
    ELSE Trim(u.last_name)

\* the label by strict priority
LabelByPriority(u) ==
    IF ~IsBlankColumn(u.email) THEN u.email
    ELSE IF ~IsBlankColumn(u.external_identifier) THEN u.external_identifier
    ELSE IF ~IsBlankColumn(u.first_name) \/ ~IsBlankColumn(u.last_name)
    THEN FirstAndOrLastName(u) \o IdSuffix(u.id)
    ELSE UnknownText \o IdSuffix(u.id)

\* C36: the author label is never blank and is derived by strict priority:
\* the email if it is not blank, else the external identifier if it is not
\* blank, else the first and/or last name followed by " (ID: <id>)" if a
\* name part is set, else "Unknown (ID: <id>)", for every combination of
\* null, blank and non-blank values of the four columns.
C36_AuthorLabelByPriority ==
    (changeUserId # Undefined) =>
        /\ Trim(changeUserId) # <<>>
        /\ changeUserId = LabelByPriority(userDetails)

====
